---- MODULE Spec2Model ----
(***************************************************************************)
(* Model of kernel/pgo/fs.c: the debugfs exporter of clang PGO data.       *)
(*                                                                         *)
(* Three specifications share this module.                                 *)
(*   SpecValue  the value-section sizer and writer applied to one          *)
(*              llvm_prf_data record (pure functions of the record).       *)
(*   SpecBlob   one task opening and releasing the profraw file, over      *)
(*              every image tried (records regions and names sizes).       *)
(*   Spec       the profraw file (open / read / release) and the reset     *)
(*              file, run by concurrent tasks on one live image.           *)
(* Buffers are modelled byte by byte; multi-byte fields are little-endian. *)
(***************************************************************************)
EXTENDS Integers, Sequences, FiniteSets, TLC

(***************************************************************************)
(* Bounds of the model.                                                    *)
(***************************************************************************)
\* largest site count of one value kind in SpecValue
MaxSites == 2
\* length of the longest value list (the lengths tried are ListLens)
MaxLen == 300

(***************************************************************************)
(* Program constants.                                                      *)
(***************************************************************************)
\* the null pointer
NULL == 0
\* U8_MAX, the cap of the per-site count (fs.c:101, fs.c:179)
U8_MAX == 255
\* LLVM_PRF_IPVK_LAST: the highest value kind tag
LLVM_PRF_IPVK_LAST == 1
\* ARRAY_SIZE(p->num_value_sites)
NumKinds == LLVM_PRF_IPVK_LAST + 1
\* sizeof(struct llvm_prf_value_data): u32 total_size, u32 num_value_kinds
ValueDataSize == 8
\* sizeof(struct llvm_prf_value_node_data): u64 value, u64 count
NodeDataSize == 16
\* a buffer byte the writer has not stored to (it keeps what the buffer held)
KEEP == -1

roundup(x, y) == ((x + y - 1) \div y) * y

\* offsetof(struct llvm_prf_value_record, site_count_array): u32 kind, u32 num_value_sites
prf_get_value_record_header_size == 8

prf_get_value_record_site_count_size(sites) == roundup(sites, 8)

prf_get_value_record_size(sites) ==
    prf_get_value_record_header_size + prf_get_value_record_site_count_size(sites)

(***************************************************************************)
(* Bytes.                                                                  *)
(***************************************************************************)
\* byte k (0 the least significant) of the unsigned integer v < 2^31
ByteAt(v, k) ==
    IF k = 0 THEN v % 256
    ELSE IF k = 1 THEN (v \div 256) % 256
    ELSE IF k = 2 THEN (v \div 65536) % 256
    ELSE IF k = 3 THEN (v \div 16777216) % 256
    ELSE 0

\* the n bytes of the unsigned integer v, least significant first
LE(v, n) == [i \in 1..n |-> ByteAt(v, i - 1)]

\* (u8)count
CastU8(count) == count % 256

Zeros(n) == [i \in 1..n |-> 0]

Min(a, b) == IF a < b THEN a ELSE b

\* memcpy / field stores of `out` at byte offset cur of buf; KEEP bytes are not stored
StoreAt(buf, cur, out) ==
    IF cur >= Len(buf) THEN buf
    ELSE LET n == Min(Len(out), Len(buf) - cur) IN
         SubSeq(buf, 1, cur)
             \o [i \in 1..n |-> IF out[i] = KEEP THEN buf[cur + i] ELSE out[i]]
             \o SubSeq(buf, cur + n + 1, Len(buf))

\* StoreAt with its arguments bound first, so that each is evaluated once
Store(buf, cur, out) ==
    CHOOSE r \in {StoreAt(b, c, o) : b \in {buf}, c \in {cur}, o \in {out}} : TRUE

(***************************************************************************)
(* Value lists.  A list is [len, tag]: the chain of nodes 1 -> 2 -> ... -> *)
(* len -> NULL, where node i holds value i and count tag (the tag tells    *)
(* the lists of an image apart).                                           *)
(***************************************************************************)
ListLens == {0, 1, U8_MAX - 1, U8_MAX, U8_MAX + 1, MaxLen}

\* nodes[s + n]: the head of the list
head_of(list) == IF list.len > 0 THEN 1 ELSE NULL

\* site->next
next_of(list, site) == IF site < list.len THEN site + 1 ELSE NULL

\* byte k of the llvm_prf_value_node_data part of a node: u64 value, u64 count
NodeByte(list, site, k) == IF k < 8 THEN ByteAt(site, k) ELSE ByteAt(list.tag, k - 8)

\* memcpy of sizeof(struct llvm_prf_value_node_data) bytes of each of the nodes
\* `copied` (positions in `list`), in order
NodeBytes(list, copied) ==
    [i \in 1..(NodeDataSize * Len(copied)) |->
        NodeByte(list, copied[((i - 1) \div NodeDataSize) + 1], (i - 1) % NodeDataSize)]

(***************************************************************************)
(* __prf_get_value_size                                                    *)
(***************************************************************************)
\* one evaluation of  while (site && ++count <= U8_MAX) site = site->next;
\* st.done: the loop has been left
CountStep(list, st) ==
    IF st.done THEN st
    ELSE IF st.site = NULL THEN [st EXCEPT !.done = TRUE]
    ELSE IF st.count + 1 <= U8_MAX
         THEN [st EXCEPT !.site = next_of(list, st.site), !.count = st.count + 1]
         ELSE [st EXCEPT !.count = st.count + 1, !.done = TRUE]

RECURSIVE CountIter(_, _, _)
\* up to n evaluations of the loop, in two halves so that the evaluation stays shallow
CountIter(list, st, n) ==
    IF n = 0 THEN st
    ELSE IF n = 1 THEN CountStep(list, st)
    ELSE LET half == CountIter(list, st, n \div 2) IN
         IF half.done THEN half ELSE CountIter(list, half, n - (n \div 2))

\* the loop run until it is left: a list of len nodes ends it within len + 1 evaluations
CountLoop(list) ==
    CountIter(list, [site |-> head_of(list), count |-> 0, done |-> FALSE],
              list.len + 1).count

RECURSIVE SizeSites(_, _, _, _, _)
\* for (n = 0; n < sites; n++) size += count * sizeof(node_data)
SizeSites(lists, s, n, sites, size) ==
    IF n < sites
    THEN LET count == CountLoop(lists[s + n + 1])
         IN SizeSites(lists, s, n + 1, sites, size + count * NodeDataSize)
    ELSE size

RECURSIVE SizeKinds(_, _, _, _, _)
\* for (kind = 0; kind < ARRAY_SIZE(p->num_value_sites); kind++)
SizeKinds(p, kind, s, kinds, size) ==
    IF kind >= NumKinds THEN [size |-> size, kinds |-> kinds]
    ELSE LET sites == p.num_value_sites[kind + 1] IN
         IF sites = 0 THEN SizeKinds(p, kind + 1, s, kinds, size)
         ELSE LET size1 == size + prf_get_value_record_size(sites) IN
              IF p.values = NULL
              THEN SizeKinds(p, kind + 1, s, kinds + 1, size1)
              ELSE SizeKinds(p, kind + 1, s + sites, kinds + 1,
                             SizeSites(p.lists, s, 0, sites, size1))

\* returns size, and kinds through *value_kinds
__prf_get_value_size(p) ==
    LET r == SizeKinds(p, 0, 0, 0, 0) IN
    [size  |-> IF r.size # 0 THEN r.size + ValueDataSize ELSE 0,
     kinds |-> r.kinds]

(***************************************************************************)
(* prf_serialize_value: the bytes stored from the cursor on (the cursor    *)
(* advances by their number).                                              *)
(***************************************************************************)
\* CopyStep with the cap one too high: a node is copied while count <= U8_MAX + 1
CopyStep_CapPlusOne(list, st) ==
    IF st.done THEN st
    ELSE IF st.site = NULL THEN [st EXCEPT !.done = TRUE]
    ELSE IF st.count + 1 <= U8_MAX + 1
         THEN [st EXCEPT !.site = next_of(list, st.site), !.count = st.count + 1,
                         !.copied = Append(st.copied, st.site)]
         ELSE [st EXCEPT !.count = st.count + 1, !.done = TRUE]

\* one evaluation of
\*   while (site && ++count <= U8_MAX) { prf_copy_buffer(site); site = site->next; }
\* st.copied: the nodes copied so far, in the order of the copies
CopyStep(list, st) ==
    IF st.done THEN st
    ELSE IF st.site = NULL THEN [st EXCEPT !.done = TRUE]
    ELSE IF st.count + 1 <= U8_MAX
         THEN [st EXCEPT !.site = next_of(list, st.site), !.count = st.count + 1,
                         !.copied = Append(st.copied, st.site)]
         ELSE [st EXCEPT !.count = st.count + 1, !.done = TRUE]

RECURSIVE CopyIter(_, _, _)
CopyIter(list, st, n) ==
    IF n = 0 THEN st
    ELSE IF n = 1 THEN CopyStep(list, st)
    ELSE LET half == CopyIter(list, st, n \div 2) IN
         IF half.done THEN half ELSE CopyIter(list, half, n - (n \div 2))

CopyLoop(list) ==
    CopyIter(list, [site |-> head_of(list), count |-> 0, copied |-> <<>>, done |-> FALSE],
             list.len + 1)

RECURSIVE WriteSites_NoBase(_, _, _, _, _, _)
\* the site loop reading nodes[n] where the code reads nodes[s + n]
WriteSites_NoBase(lists, s, n, sites, counts, out) ==
    IF n < sites
    THEN LET list == lists[n + 1]
             r    == CopyLoop(list)
             out1 == out \o NodeBytes(list, r.copied)
             out2 == [out1 EXCEPT ![counts + n + 1] = CastU8(r.count)]
         IN WriteSites_NoBase(lists, s, n + 1, sites, counts, out2)
    ELSE out

RECURSIVE WriteSites(_, _, _, _, _, _)
\* for (n = 0; n < sites; n++) { copy the nodes; counts[n] = (u8)count; }
WriteSites(lists, s, n, sites, counts, out) ==
    IF n < sites
    THEN LET list == lists[s + n + 1]
             r    == CopyLoop(list)
             out1 == out \o NodeBytes(list, r.copied)
             out2 == [out1 EXCEPT ![counts + n + 1] = CastU8(r.count)]
         IN WriteSites(lists, s, n + 1, sites, counts, out2)
    ELSE out

RECURSIVE WriteKinds(_, _, _, _)
\* for (kind = 0; kind < ARRAY_SIZE(p->num_value_sites); kind++)
WriteKinds(p, kind, s, out) ==
    IF kind >= NumKinds THEN out
    ELSE LET sites == p.num_value_sites[kind + 1] IN
         IF sites = 0 THEN WriteKinds(p, kind + 1, s, out)
         ELSE LET out1   == out \o LE(kind, 4) \o LE(sites, 4)
                  counts == Len(out1)
                  out2   == out1 \o [i \in 1..prf_get_value_record_site_count_size(sites) |-> KEEP]
              IN IF p.values = NULL
                 THEN WriteKinds(p, kind + 1, s, out2)
                 ELSE WriteKinds(p, kind + 1, s + sites,
                                 WriteSites(p.lists, s, 0, sites, counts, out2))

\* prf_serialize_value without the early return on num_value_kinds == 0
prf_serialize_value_NoSkip(p) ==
    LET header == __prf_get_value_size(p) IN
    WriteKinds(p, 0, 0, LE(header.size, 4) \o LE(header.kinds, 4))

prf_serialize_value(p) ==
    LET header == __prf_get_value_size(p) IN
    IF header.kinds = 0 THEN <<>>
    ELSE WriteKinds(p, 0, 0, LE(header.size, 4) \o LE(header.kinds, 4))

(***************************************************************************)
(* The live image: the records, counters and names regions (pgo.h).        *)
(***************************************************************************)
\* sizeof(struct llvm_prf_header): ten u64 fields
HeaderSize == 80
\* sizeof(struct llvm_prf_data): name_ref, func_hash, counter_ptr, function_ptr,
\* values (8 bytes each), u32 num_counters, u16 num_value_sites[2]
DataSize == 48
\* sizeof(u64): one counter
CounterSize == 8
\* LLVM_PRF_MAGIC, least significant byte first: 129 'R' 'f' 'o' 'r' 'p' 'l' 255
LLVM_PRF_MAGIC == <<129, 82, 102, 111, 114, 112, 108, 255>>
\* LLVM_PRF_VARIANT_MASK_IR | LLVM_PRF_VERSION: (1 << 56) | 5
LLVM_PRF_VERSION_IR == <<5, 0, 0, 0, 0, 0, 0, 1>>
\* (u64)__llvm_prf_cnts_start and (u64)__llvm_prf_names_start: opaque addresses
CntsStartAddr == 4096
NamesStartAddr == 8192

\* the bytes of one struct llvm_prf_data
DataBytes(p) ==
    LE(p.name_ref, 8) \o LE(p.func_hash, 8) \o Zeros(8) \o Zeros(8) \o LE(p.values, 8)
        \o LE(p.num_counters, 4) \o LE(p.num_value_sites[1], 2) \o LE(p.num_value_sites[2], 2)

\* the bytes of the region __llvm_prf_data_start .. __llvm_prf_data_end
DataRegionBytes(data) ==
    [i \in 1..(DataSize * Len(data)) |->
        DataBytes(data[((i - 1) \div DataSize) + 1])[((i - 1) % DataSize) + 1]]

prf_data_count(data) == Len(data)
prf_data_size(data) == Len(data) * DataSize
prf_cnts_count(cnts) == Len(cnts)
prf_cnts_size(cnts) == Len(cnts) * CounterSize
prf_names_count(names) == Len(names)
prf_names_size(names) == Len(names)

\* 7 & (sizeof(u64) - size % sizeof(u64))
prf_get_padding(size) == (8 - (size % 8)) % 8

(***************************************************************************)
(* prf_fill_header, prf_get_value_size, prf_serialize_values,              *)
(* prf_buffer_size                                                         *)
(***************************************************************************)
\* prf_fill_header storing the byte length of the records in data_size
prf_fill_header_DataBytes(data, cnts, names) ==
    LLVM_PRF_MAGIC
        \o LLVM_PRF_VERSION_IR
        \o LE(prf_data_size(data), 8)
        \o LE(0, 8)
        \o LE(prf_cnts_count(cnts), 8)
        \o LE(0, 8)
        \o LE(prf_names_count(names), 8)
        \o LE(CntsStartAddr, 8)
        \o LE(NamesStartAddr, 8)
        \o LE(LLVM_PRF_IPVK_LAST, 8)

\* the header stored at the cursor (the cursor advances by sizeof(*header))
prf_fill_header(data, cnts, names) ==
    LLVM_PRF_MAGIC
        \o LLVM_PRF_VERSION_IR
        \o LE(prf_data_count(data), 8)
        \o LE(0, 8)
        \o LE(prf_cnts_count(cnts), 8)
        \o LE(0, 8)
        \o LE(prf_names_count(names), 8)
        \o LE(CntsStartAddr, 8)
        \o LE(NamesStartAddr, 8)
        \o LE(LLVM_PRF_IPVK_LAST, 8)

RECURSIVE ValueSizeLoop(_, _, _)
\* for (p = __llvm_prf_data_start; p < __llvm_prf_data_end; p++) size += ...
ValueSizeLoop(data, idx, size) ==
    IF idx > Len(data) THEN size
    ELSE ValueSizeLoop(data, idx + 1, size + __prf_get_value_size(data[idx]).size)

prf_get_value_size(data) == ValueSizeLoop(data, 1, 0)

RECURSIVE SerializeValuesLoop(_, _, _)
\* for (p = __llvm_prf_data_start; p < __llvm_prf_data_end; p++)
\*         prf_serialize_value(p, buffer);
\* b = [bytes, cursor]
SerializeValuesLoop(data, idx, b) ==
    IF idx > Len(data) THEN b
    ELSE LET out == prf_serialize_value(data[idx]) IN
         SerializeValuesLoop(data, idx + 1,
             [bytes |-> Store(b.bytes, b.cursor, out), cursor |-> b.cursor + Len(out)])

prf_serialize_values(data, b) == SerializeValuesLoop(data, 1, b)

\* prf_buffer_size without the padding after the names region
prf_buffer_size_NoPadding(data, cnts, names) ==
    HeaderSize + prf_data_size(data) + prf_cnts_size(cnts) + prf_names_size(names)
        + prf_get_value_size(data)

prf_buffer_size(data, cnts, names) ==
    HeaderSize + prf_data_size(data) + prf_cnts_size(cnts) + prf_names_size(names)
        + prf_get_padding(prf_names_size(names)) + prf_get_value_size(data)

\* prf_copy_buffer(&buffer, src, size) on b = [bytes, cursor]
prf_copy_buffer(b, src) ==
    [bytes |-> Store(b.bytes, b.cursor, src), cursor |-> b.cursor + Len(src)]

(***************************************************************************)
(* State.                                                                  *)
(*   vp .. vcur   SpecValue: the record, the sizer's results, the buffer   *)
(*   prf_data     the records region (struct llvm_prf_data each)           *)
(*   prf_cnts     the live counters region                                 *)
(*   prf_names    the names region                                         *)
(*   pgo_lock     the lock of prf_serialize_lock(): NoTask or the holder   *)
(*   heap         vzalloc memory: address -> [live, bytes]                 *)
(*   file         per open of the profraw file: the task's position, the   *)
(*                struct file and the struct prf_private_data              *)
(*   reset        the task writing to / reading from the reset file        *)
(***************************************************************************)
VARIABLES vp, vpc, vsize, vkinds, vbuf, vcur,
          prf_data, prf_cnts, prf_names, pgo_lock, heap, file, reset

vvars == <<vp, vpc, vsize, vkinds, vbuf, vcur>>
image == <<prf_data, prf_names>>
svars == <<prf_data, prf_cnts, prf_names, pgo_lock, heap, file, reset>>
vars == <<vvars, svars>>

\* the tasks that open the profraw file, one struct file each
Files == {"f1", "f2"}
NoTask == "none"
\* vzalloc addresses: one per file suffices
Addrs == 1..Cardinality(Files)
ENOMEM == 12

(***************************************************************************)
(* The images tried.                                                       *)
(***************************************************************************)
\* records of the images of SpecBlob
MaxRecords == 2
\* bytes of the names region of the images of SpecBlob
MaxNames == 8
\* counters of the counters region; counter i starts at i
NumCnts == 2
\* the count argument of the reads tried
ReadCount == 64
\* the len argument of the reset writes tried
MaxResetLen == 1

InitCnts == [i \in 1..NumCnts |-> i]

\* the names region: n bytes, none of them zero
NamesOf(n) == [i \in 1..n |-> 64 + i]

\* record number id of an image, of the given shape [ns, values, lens]
Rec(id, shape) ==
    [name_ref |-> id, func_hash |-> 256 + id, num_counters |-> 1,
     num_value_sites |-> shape.ns, values |-> shape.values,
     lists |-> [i \in 1..Len(shape.lens) |-> [len |-> shape.lens[i], tag |-> 16 * id + i]]]

\* no value kinds
ShapeNone == [ns |-> <<0, 0>>, values |-> NULL, lens |-> <<>>]
\* one kind with two sites, lists of 3 and 0 nodes
ShapeTwoSites == [ns |-> <<2, 0>>, values |-> 1, lens |-> <<3, 0>>]
\* two kinds with a site each, the per-site array absent
ShapeNoArray == [ns |-> <<1, 1>>, values |-> NULL, lens |-> <<>>]
\* the second kind with one site, its list one node over the cap
ShapeOverCap == [ns |-> <<0, 1>>, values |-> 1, lens |-> <<U8_MAX + 1>>]

\* both kinds with sites: the second kind's lists follow the first's in the
\* per-site array; one list of exactly the cap
ShapeBothKinds == [ns |-> <<1, 2>>, values |-> 1, lens |-> <<2, U8_MAX, 1>>]

Shapes == {ShapeNone, ShapeTwoSites, ShapeNoArray, ShapeOverCap, ShapeBothKinds}

DataOf(shapes) == [j \in 1..Len(shapes) |-> Rec(j, shapes[j])]

\* SpecBlob: every sequence of up to MaxRecords shapes, every names size
BlobData == UNION {{DataOf(q) : q \in [1..n -> Shapes]} : n \in 0..MaxRecords}

\* Spec: the records regions run concurrently
ConcImages ==
    {[data |-> DataOf(<<ShapeNone, ShapeTwoSites>>), names |-> NamesOf(3)],
     [data |-> DataOf(<<ShapeNoArray>>), names |-> NamesOf(8)]}

(***************************************************************************)
(* Initial states.                                                         *)
(***************************************************************************)
NoData == [alloc |-> FALSE, buffer |-> NULL, size |-> 0]

ClosedFile ==
    [pc |-> "closed", private_data |-> NULL, data |-> NoData,
     cursor |-> 0, i |-> 0, err |-> 0, ret |-> 0, pos |-> 0, rd |-> <<>>]

InitSystem ==
    /\ prf_cnts = InitCnts
    /\ pgo_lock = NoTask
    /\ heap = [a \in Addrs |-> [live |-> FALSE, bytes |-> <<>>]]
    /\ file = [f \in Files |-> ClosedFile]
    /\ reset = [pc |-> "idle", i |-> 0, len |-> 0, ret |-> 0]

ValueOff ==
    /\ vp = [num_value_sites |-> <<0, 0>>, values |-> NULL, lists |-> <<>>]
    /\ vpc = "off"
    /\ vsize = 0
    /\ vkinds = 0
    /\ vbuf = <<>>
    /\ vcur = 0

Init ==
    /\ \E im \in ConcImages : prf_data = im.data /\ prf_names = im.names
    /\ InitSystem
    /\ ValueOff

InitBlob ==
    /\ prf_data \in BlobData
    /\ prf_names \in {NamesOf(n) : n \in 0..MaxNames}
    /\ InitSystem
    /\ ValueOff

(***************************************************************************)
(* prf_open / prf_serialize, one action per stretch between two points     *)
(* where another task can interleave; the memcpy of the counters region    *)
(* is not atomic and proceeds a counter at a time.                         *)
(***************************************************************************)
\* the buffer and cursor of f's prf_serialize
BufOf(f) == [bytes |-> heap[file[f].data.buffer].bytes, cursor |-> file[f].cursor]

\* vzalloc: the lowest free address
FreeAddr == CHOOSE a \in Addrs : ~heap[a].live /\ \A b \in Addrs : b < a => heap[b].live

\* prf_open up to the call of prf_serialize: WARN_ON, data = kzalloc(); !data: -ENOMEM
Open_Kzalloc(f) ==
    /\ file[f].pc = "closed"
    /\ \/ file' = [file EXCEPT ![f] = [ClosedFile EXCEPT
                      !.pc = "lock", !.data = [NoData EXCEPT !.alloc = TRUE]]]
       \/ file' = [file EXCEPT ![f] = [ClosedFile EXCEPT !.ret = -ENOMEM]]
    /\ UNCHANGED <<vvars, image, prf_cnts, pgo_lock, heap, reset>>

\* flags = prf_serialize_lock();
Serialize_Lock(f) ==
    /\ file[f].pc = "lock"
    /\ pgo_lock = NoTask
    /\ pgo_lock' = f
    /\ file' = [file EXCEPT ![f].pc = "size", ![f].err = 0]
    /\ UNCHANGED <<vvars, image, prf_cnts, heap, reset>>

\* Serialize_Alloc with vmalloc for vzalloc: the buffer holds what the memory held
Serialize_Alloc_NoZero(f) ==
    /\ file[f].pc = "size"
    /\ LET size == prf_buffer_size(prf_data, prf_cnts, prf_names) IN
       \/ /\ heap' = [heap EXCEPT ![FreeAddr] =
                          [live |-> TRUE, bytes |-> [k \in 1..size |-> 170]]]
          /\ file' = [file EXCEPT ![f].data.size = size, ![f].data.buffer = FreeAddr,
                                  ![f].cursor = 0, ![f].pc = "fill"]
       \/ /\ heap' = heap
          /\ file' = [file EXCEPT ![f].data.size = size, ![f].data.buffer = NULL,
                                  ![f].err = -ENOMEM, ![f].pc = "out"]
    /\ UNCHANGED <<vvars, image, prf_cnts, pgo_lock, reset>>

\* prf_serialize with one buffer for all files where the code calls vzalloc
Serialize_Alloc_Shared(f) ==
    /\ file[f].pc = "size"
    /\ LET size == prf_buffer_size(prf_data, prf_cnts, prf_names) IN
       /\ heap' = [heap EXCEPT ![1] = [live |-> TRUE, bytes |-> Zeros(size)]]
       /\ file' = [file EXCEPT ![f].data.size = size, ![f].data.buffer = 1,
                               ![f].cursor = 0, ![f].pc = "fill"]
    /\ UNCHANGED <<vvars, image, prf_cnts, pgo_lock, reset>>

\* p->size = prf_buffer_size(); p->buffer = vzalloc(p->size);
\* if (!p->buffer) { err = -ENOMEM; goto out; }  buffer = p->buffer;
Serialize_Alloc(f) ==
    /\ file[f].pc = "size"
    /\ LET size == prf_buffer_size(prf_data, prf_cnts, prf_names) IN
       \/ /\ heap' = [heap EXCEPT ![FreeAddr] = [live |-> TRUE, bytes |-> Zeros(size)]]
          /\ file' = [file EXCEPT ![f].data.size = size, ![f].data.buffer = FreeAddr,
                                  ![f].cursor = 0, ![f].pc = "fill"]
       \/ /\ heap' = heap
          /\ file' = [file EXCEPT ![f].data.size = size, ![f].data.buffer = NULL,
                                  ![f].err = -ENOMEM, ![f].pc = "out"]
    /\ UNCHANGED <<vvars, image, prf_cnts, pgo_lock, reset>>

\* prf_fill_header(&buffer); prf_copy_buffer(&buffer, __llvm_prf_data_start, ...);
Serialize_Header(f) ==
    /\ file[f].pc = "fill"
    /\ LET b1 == prf_copy_buffer(BufOf(f), prf_fill_header(prf_data, prf_cnts, prf_names))
           b2 == prf_copy_buffer(b1, DataRegionBytes(prf_data))
       IN /\ heap' = [heap EXCEPT ![file[f].data.buffer].bytes = b2.bytes]
          /\ file' = [file EXCEPT ![f].cursor = b2.cursor, ![f].i = 0, ![f].pc = "cnts"]
    /\ UNCHANGED <<vvars, image, prf_cnts, pgo_lock, reset>>

\* prf_copy_buffer(&buffer, __llvm_prf_cnts_start, prf_cnts_size()): counter i
Serialize_CopyCnts(f) ==
    /\ file[f].pc = "cnts"
    /\ LET i    == file[f].i
           at   == [BufOf(f) EXCEPT !.cursor = file[f].cursor + i * CounterSize]
           b    == prf_copy_buffer(at, LE(prf_cnts[i + 1], CounterSize))
           last == i + 1 = prf_cnts_count(prf_cnts)
       IN /\ heap' = [heap EXCEPT ![file[f].data.buffer].bytes = b.bytes]
          /\ file' = [file EXCEPT
                 ![f].i = IF last THEN 0 ELSE i + 1,
                 ![f].cursor = IF last THEN b.cursor ELSE file[f].cursor,
                 ![f].pc = IF last THEN "tail" ELSE "cnts"]
    /\ UNCHANGED <<vvars, image, prf_cnts, pgo_lock, reset>>

\* prf_serialize without the cursor's advance over the padding
Serialize_Tail_NoPadding(f) ==
    /\ file[f].pc = "tail"
    /\ LET b1 == prf_copy_buffer(BufOf(f), prf_names)
           b3 == prf_serialize_values(prf_data, b1)
       IN /\ heap' = [heap EXCEPT ![file[f].data.buffer].bytes = b3.bytes]
          /\ file' = [file EXCEPT ![f].cursor = b3.cursor, ![f].pc = "out"]
    /\ UNCHANGED <<vvars, image, prf_cnts, pgo_lock, reset>>

\* prf_copy_buffer(&buffer, __llvm_prf_names_start, prf_names_size());
\* buffer += prf_get_padding(prf_names_size()); prf_serialize_values(&buffer);
Serialize_Tail(f) ==
    /\ file[f].pc = "tail"
    /\ LET b1 == prf_copy_buffer(BufOf(f), prf_names)
           b2 == [b1 EXCEPT !.cursor = b1.cursor + prf_get_padding(prf_names_size(prf_names))]
           b3 == prf_serialize_values(prf_data, b2)
       IN /\ heap' = [heap EXCEPT ![file[f].data.buffer].bytes = b3.bytes]
          /\ file' = [file EXCEPT ![f].cursor = b3.cursor, ![f].pc = "out"]
    /\ UNCHANGED <<vvars, image, prf_cnts, pgo_lock, reset>>

\* Serialize_Out with prf_open not testing err: the file is opened all the same
Serialize_Out_IgnoreErr(f) ==
    /\ file[f].pc = "out"
    /\ pgo_lock' = NoTask
    /\ file' = [file EXCEPT ![f].private_data = 1, ![f].ret = 0, ![f].pos = 0,
                            ![f].err = 0, ![f].pc = "opened"]
    /\ UNCHANGED <<vvars, image, prf_cnts, heap, reset>>

\* prf_serialize returning on the allocation failure without the unlock
Serialize_Out_NoUnlockOnErr(f) ==
    /\ file[f].pc = "out"
    /\ IF file[f].err # 0
       THEN /\ pgo_lock' = pgo_lock
            /\ file' = [file EXCEPT ![f] = [ClosedFile EXCEPT !.ret = file[f].err]]
       ELSE /\ pgo_lock' = NoTask
            /\ file' = [file EXCEPT ![f].private_data = 1, ![f].ret = 0, ![f].pos = 0,
                                    ![f].pc = "opened"]
    /\ UNCHANGED <<vvars, image, prf_cnts, heap, reset>>

\* out: prf_serialize_unlock(flags); return err;  and in prf_open:
\* if (err) { kfree(data); return err; }  file->private_data = data; return 0;
Serialize_Out(f) ==
    /\ file[f].pc = "out"
    /\ pgo_lock' = NoTask
    /\ IF file[f].err # 0
       THEN file' = [file EXCEPT ![f] = [ClosedFile EXCEPT !.ret = file[f].err]]
       ELSE file' = [file EXCEPT ![f].private_data = 1, ![f].ret = 0, ![f].pos = 0,
                                 ![f].pc = "opened"]
    /\ UNCHANGED <<vvars, image, prf_cnts, heap, reset>>

(***************************************************************************)
(* prf_read, prf_release                                                   *)
(***************************************************************************)
\* simple_read_from_buffer(to, count, ppos, from, available): [ret, pos, bytes]
simple_read_from_buffer(count, pos, from, available) ==
    IF pos >= available \/ count = 0
    THEN [ret |-> 0, pos |-> pos, bytes |-> <<>>]
    ELSE LET n == IF count > available - pos THEN available - pos ELSE count IN
         [ret |-> n, pos |-> pos + n, bytes |-> [k \in 1..n |-> from[pos + k]]]

\* prf_read reading from the start of the buffer whatever the position
Read_IgnoresPos(f) ==
    /\ file[f].pc = "opened"
    /\ LET r == simple_read_from_buffer(ReadCount, 0,
                    heap[file[f].data.buffer].bytes, file[f].data.size)
       IN file' = [file EXCEPT ![f].ret = r.ret, ![f].pos = file[f].pos + r.ret,
                               ![f].rd = r.bytes]
    /\ UNCHANGED <<vvars, image, prf_cnts, pgo_lock, heap, reset>>

\* prf_read on an open file
Read(f) ==
    /\ file[f].pc = "opened"
    /\ LET r == simple_read_from_buffer(ReadCount, file[f].pos,
                    heap[file[f].data.buffer].bytes, file[f].data.size)
       IN file' = [file EXCEPT ![f].ret = r.ret, ![f].pos = r.pos, ![f].rd = r.bytes]
    /\ UNCHANGED <<vvars, image, prf_cnts, pgo_lock, heap, reset>>

\* prf_release: if (data) { vfree(data->buffer); kfree(data); }
Release(f) ==
    /\ file[f].pc = "opened"
    /\ IF file[f].private_data # NULL
       THEN heap' = [heap EXCEPT ![file[f].data.buffer] = [live |-> FALSE, bytes |-> <<>>]]
       ELSE heap' = heap
    /\ file' = [file EXCEPT ![f] = ClosedFile]
    /\ UNCHANGED <<vvars, image, prf_cnts, pgo_lock, reset>>

(***************************************************************************)
(* prf_reset_write, prf_reset_read                                         *)
(***************************************************************************)
\* a write of len bytes arrives at the reset file
Reset_Write(len) ==
    /\ reset.pc = "idle"
    /\ reset' = [pc |-> "memset", i |-> 0, len |-> len, ret |-> 0]
    /\ UNCHANGED <<vvars, image, prf_cnts, pgo_lock, heap, file>>

\* the memset one counter short of the counters region
Reset_Memset_SkipsLast ==
    /\ reset.pc = "memset"
    /\ IF reset.i + 1 = prf_cnts_count(prf_cnts)
       THEN /\ prf_cnts' = prf_cnts
            /\ reset' = [reset EXCEPT !.pc = "idle", !.i = 0, !.ret = reset.len]
       ELSE /\ prf_cnts' = [prf_cnts EXCEPT ![reset.i + 1] = 0]
            /\ reset' = [reset EXCEPT !.i = reset.i + 1]
    /\ UNCHANGED <<vvars, image, pgo_lock, heap, file>>

\* memset(__llvm_prf_cnts_start, 0, prf_cnts_size()): counter i; after the last
\* one, return len;
Reset_Memset ==
    /\ reset.pc = "memset"
    /\ prf_cnts' = [prf_cnts EXCEPT ![reset.i + 1] = 0]
    /\ IF reset.i + 1 = prf_cnts_count(prf_cnts)
       THEN reset' = [reset EXCEPT !.pc = "idle", !.i = 0, !.ret = reset.len]
       ELSE reset' = [reset EXCEPT !.i = reset.i + 1]
    /\ UNCHANGED <<vvars, image, pgo_lock, heap, file>>

\* prf_reset_read: return 0;
Reset_Read ==
    /\ reset.pc = "idle"
    /\ reset' = [reset EXCEPT !.ret = 0, !.len = 0]
    /\ UNCHANGED <<vvars, image, prf_cnts, pgo_lock, heap, file>>

\* prf_open, from the call to the return
OpenStep(f) ==
    \/ Open_Kzalloc(f)
    \/ Serialize_Lock(f)
    \/ Serialize_Alloc(f)
    \/ Serialize_Header(f)
    \/ Serialize_CopyCnts(f)
    \/ Serialize_Tail(f)
    \/ Serialize_Out(f)

Next ==
    \/ \E f \in Files : OpenStep(f) \/ Read(f) \/ Release(f)
    \/ \E len \in 0..MaxResetLen : Reset_Write(len)
    \/ Reset_Memset
    \/ Reset_Read

Spec == Init /\ [][Next]_vars

\* the steps of prf_serialize between taking the lock and releasing it
InLock(f) ==
    \/ Serialize_Alloc(f)
    \/ Serialize_Header(f)
    \/ Serialize_CopyCnts(f)
    \/ Serialize_Tail(f)
    \/ Serialize_Out(f)

\* a task that holds the lock, interrupts off, runs on to the unlock; a task
\* that waits for the lock gets it when it is free again and again; the
\* memset of the reset waits for nothing
Fairness ==
    /\ \A f \in Files : WF_vars(InLock(f)) /\ SF_vars(Serialize_Lock(f))
    /\ WF_vars(Reset_Memset)

\* the image under which the lock is followed: the lock's steps do not depend
\* on the regions' contents
InitFair ==
    /\ prf_data = DataOf(<<ShapeNone>>)
    /\ prf_names = NamesOf(3)
    /\ InitSystem
    /\ ValueOff

SpecFair == InitFair /\ [][Next]_vars /\ Fairness

\* one task opening and releasing the file, nothing running beside it
NextBlob == OpenStep("f1") \/ Release("f1")

SpecBlob == InitBlob /\ [][NextBlob]_vars

(***************************************************************************)
(* SpecValue: the sizer and the writer on one record.                      *)
(***************************************************************************)
RECURSIVE SumSeq(_)
SumSeq(q) == IF q = <<>> THEN 0 ELSE Head(q) + SumSeq(Tail(q))

\* the lists of one record hold at most this many nodes: one long list and short ones
MaxNodes == MaxLen + NumKinds * MaxSites

\* the per-site arrays tried for t sites: every length of ListLens, list i tagged i
SiteArrays(t) ==
    {[i \in 1..t |-> [len |-> x[i], tag |-> i]] :
        x \in {y \in [1..t -> ListLens] : SumSeq(y) <= MaxNodes}}

\* the records tried: every site count per kind, the per-site array absent or present
ValueRecords ==
    UNION {
        {[num_value_sites |-> ns, values |-> NULL, lists |-> <<>>]}
        \cup
        {[num_value_sites |-> ns, values |-> 1, lists |-> l] : l \in SiteArrays(SumSeq(ns))}
        : ns \in [1..NumKinds -> 0..MaxSites]}

InitValue ==
    /\ vp \in ValueRecords
    /\ vpc = "start"
    /\ vsize = 0
    /\ vkinds = 0
    /\ vbuf = <<>>
    /\ vcur = 0
    /\ prf_data = <<>>
    /\ prf_names = <<>>
    /\ InitSystem

\* the size pass, and a zero-filled buffer of that size
V_GetSize ==
    /\ vpc = "start"
    /\ LET r == __prf_get_value_size(vp) IN
         /\ vsize' = r.size
         /\ vkinds' = r.kinds
         /\ vbuf' = Zeros(r.size)
    /\ vpc' = "sized"
    /\ UNCHANGED <<vp, vcur, svars>>

\* the write pass
V_Serialize ==
    /\ vpc = "sized"
    /\ LET out == prf_serialize_value(vp) IN
         /\ vbuf' = Store(vbuf, vcur, out)
         /\ vcur' = vcur + Len(out)
    /\ vpc' = "written"
    /\ UNCHANGED <<vp, vsize, vkinds, svars>>

NextValue == V_GetSize \/ V_Serialize

SpecValue == InitValue /\ [][NextValue]_vars

(***************************************************************************)
(* The documented layout of one record's flattened value data, stated      *)
(* without the loops of the code: a site emits min(length, 255) payloads.  *)
(***************************************************************************)
KindSet == 0..(NumKinds - 1)

Sites(p, kind) == p.num_value_sites[kind + 1]

PresentKinds(p) == {k \in KindSet : Sites(p, k) # 0}

RECURSIVE SumOver(_, _)
\* the sum of f over the finite set S of integers
SumOver(f, S) ==
    IF S = {} THEN 0
    ELSE LET x == CHOOSE y \in S : \A z \in S : y <= z
         IN f[x] + SumOver(f, S \ {x})

\* the index in the per-site array of site n of `kind`
SlotOf(p, kind, n) ==
    SumOver([j \in KindSet |-> Sites(p, j)], {j \in KindSet : j < kind}) + n

\* the list of site n of `kind` (the per-site array is present)
ListOf(p, kind, n) == p.lists[SlotOf(p, kind, n) + 1]

\* the payloads a site emits
Emitted(list) == Min(list.len, U8_MAX)

\* the payload bytes of the sites m < n of `kind`
RefPayloadBytes(p, kind, n) ==
    IF p.values = NULL THEN 0
    ELSE NodeDataSize * SumOver([m \in 0..(n - 1) |-> Emitted(ListOf(p, kind, m))], 0..(n - 1))

\* the bytes of one kind: record header, site count array, payloads
RefKindBytes(p, kind) ==
    IF Sites(p, kind) = 0 THEN 0
    ELSE prf_get_value_record_size(Sites(p, kind)) + RefPayloadBytes(p, kind, Sites(p, kind))

\* the bytes of the whole flattened value record
RefSize(p) ==
    IF PresentKinds(p) = {} THEN 0
    ELSE ValueDataSize + SumOver([k \in KindSet |-> RefKindBytes(p, k)], KindSet)

\* offsets, from the start of the flattened value record, of the parts of `kind`
RefRecordOff(p, kind) ==
    ValueDataSize + SumOver([k \in KindSet |-> RefKindBytes(p, k)], {j \in KindSet : j < kind})

RefCountsOff(p, kind) == RefRecordOff(p, kind) + prf_get_value_record_header_size

RefPayloadOff(p, kind, n) ==
    RefCountsOff(p, kind) + prf_get_value_record_site_count_size(Sites(p, kind))
        + RefPayloadBytes(p, kind, n)

\* the bytes buf[off + 1 .. off + Len(bytes)] are `bytes`
HoldsAt(buf, off, bytes) ==
    /\ off + Len(bytes) <= Len(buf)
    /\ \A i \in 1..Len(bytes) : buf[off + i] = bytes[i]

\* the first k nodes of a list, in list order
FirstNodes(list, k) == NodeBytes(list, [i \in 1..k |-> i])

(***************************************************************************)
(* Claims on the sizer and the writer (SpecValue).                         *)
(***************************************************************************)

\* C1: for every record the byte count the sizer returns equals the number of
\* bytes by which the writer advances the cursor (and the total_size field the
\* writer stores in the record's header).
C1_SizeEqualsWritten ==
    vpc = "written" =>
        /\ vcur = vsize
        /\ vcur > 0 => HoldsAt(vbuf, 0, LE(vcur, 4))

\* C2: for every site of a present per-site array, the count byte stored in the
\* site's slot of the site count array is min(length of the list, 255).
C2_CountByteIsMin ==
    (vpc = "written" /\ vp.values # NULL) =>
        \A k \in PresentKinds(vp) : \A n \in 0..(Sites(vp, k) - 1) :
            vbuf[RefCountsOff(vp, k) + n + 1] = Min(ListOf(vp, k, n).len, U8_MAX)

\* C6: for every site of a present per-site array the writer emits exactly
\* min(length, 255) payloads, the first nodes of the list in list order, one
\* site after the other; nothing of a later node is in the buffer.
C6_FirstNodesEmitted ==
    (vpc = "written" /\ vp.values # NULL) =>
        /\ \A k \in PresentKinds(vp) : \A n \in 0..(Sites(vp, k) - 1) :
               HoldsAt(vbuf, RefPayloadOff(vp, k, n),
                       FirstNodes(ListOf(vp, k, n), Emitted(ListOf(vp, k, n))))
        /\ vcur = RefSize(vp)
        /\ \A i \in (vcur + 1)..Len(vbuf) : vbuf[i] = 0

\* a list longer than the cap, and a shorter non-empty one, have been written
C6_Witness ==
    /\ vpc = "written"
    /\ vp.values # NULL
    /\ \E k \in PresentKinds(vp) : \E n \in 0..(Sites(vp, k) - 1) :
           ListOf(vp, k, n).len > U8_MAX
    /\ \E k \in PresentKinds(vp) : \E n \in 0..(Sites(vp, k) - 1) :
           ListOf(vp, k, n).len = 1

\* C7: the sizer returns 0 when no kind has sites, and otherwise the header plus,
\* per kind with sites, record header, site count array and min(length, 255)
\* payloads per site; kinds_present is the number of kinds with sites.
C7_SizerFormula ==
    vpc # "start" =>
        /\ vsize = RefSize(vp)
        /\ vkinds = Cardinality(PresentKinds(vp))

\* C9: a record whose kinds all have zero sites gets size 0 and the writer leaves
\* the cursor where it was and stores nothing; in any record a kind with zero
\* sites adds no record header and no site count array: the record headers
\* stored are those of the kinds with sites, each after its predecessor's data.
C9_ZeroSitesAddNothing ==
    /\ (vpc # "start" /\ PresentKinds(vp) = {}) => (vsize = 0 /\ vkinds = 0)
    /\ (vpc = "written" /\ PresentKinds(vp) = {}) => (vcur = 0 /\ vbuf = <<>>)
    /\ vpc # "start" =>
           vsize - (IF vp.values = NULL THEN 0
                    ELSE NodeDataSize *
                         SumOver([i \in DOMAIN vp.lists |-> CountLoop(vp.lists[i])],
                                 DOMAIN vp.lists))
             = (IF PresentKinds(vp) = {} THEN 0 ELSE ValueDataSize)
               + SumOver([k \in KindSet |-> prf_get_value_record_size(Sites(vp, k))],
                         PresentKinds(vp))
    /\ (vpc = "written" /\ PresentKinds(vp) # {}) =>
           /\ HoldsAt(vbuf, 4, LE(Cardinality(PresentKinds(vp)), 4))
           /\ \A k \in PresentKinds(vp) :
                  HoldsAt(vbuf, RefRecordOff(vp, k), LE(k, 4) \o LE(Sites(vp, k), 4))
           /\ vcur = RefRecordOff(vp, NumKinds)

\* a record without sites, and one with a site-less kind before a kind with sites
C9_Witness ==
    /\ vpc = "written"
    /\ \/ PresentKinds(vp) = {}
       \/ PresentKinds(vp) = {NumKinds - 1}

(***************************************************************************)
(* The documented layout of the blob.                                      *)
(***************************************************************************)
CntsOff == HeaderSize + prf_data_size(prf_data)

NamesOff == CntsOff + prf_cnts_size(prf_cnts)

\* the start of the value section
ValuesOff == NamesOff + prf_names_size(prf_names) + prf_get_padding(prf_names_size(prf_names))

\* the start of the flattened value record of record j (Len + 1: the end)
RecOff(j) == ValuesOff + SumOver([m \in 1..(j - 1) |-> RefSize(prf_data[m])], 1..(j - 1))

\* f's prf_serialize has written everything and found no error
Finished(f) == (file[f].pc = "out" /\ file[f].err = 0) \/ file[f].pc = "opened"

BlobOf(f) == heap[file[f].data.buffer].bytes

\* the counters region of f's blob
BlobCnts(f) == [k \in 1..prf_cnts_size(prf_cnts) |-> BlobOf(f)[CntsOff + k]]

CntsBytes(cnts) ==
    [k \in 1..(CounterSize * Len(cnts)) |->
        ByteAt(cnts[((k - 1) \div CounterSize) + 1], (k - 1) % CounterSize)]

(***************************************************************************)
(* Claims on the snapshot and the reset (Spec, SpecBlob).                  *)
(***************************************************************************)

\* C3: a snapshot produced while a reset runs never holds a partially zeroed
\* counters region: the counters in the blob are all the values before the reset
\* or all zero.
C3_CountersNotTorn ==
    \A f \in Files :
        Finished(f) =>
            \/ BlobCnts(f) = CntsBytes(InitCnts)
            \/ BlobCnts(f) = Zeros(prf_cnts_size(prf_cnts))

\* C4: the reset zeroes the counters only while it holds the lock: its memset is
\* never in progress while a snapshot is between taking and releasing the lock.
C4_ResetExcludesSnapshot ==
    ~(reset.pc = "memset" /\ pgo_lock # NoTask)

\* C5: when a successful prf_serialize has written everything, the cursor is at
\* offset p->size from the start of the buffer, neither short of it nor past it.
C5_CursorAtEnd ==
    \A f \in Files :
        (file[f].pc = "out" /\ file[f].err = 0) => file[f].cursor = file[f].data.size

\* C8: when vzalloc fails, prf_serialize returns -ENOMEM and stores nothing, and
\* prf_open returns that error with the file's private data unset, the private
\* structure freed and no buffer left; only opened files own a buffer.
C8_FailedOpen ==
    /\ [](\A f \in Files :
            /\ (file[f].pc = "out" /\ file[f].err # 0) =>
                   /\ file[f].err = -ENOMEM
                   /\ file[f].data.buffer = NULL
                   /\ file[f].private_data = NULL
                   /\ file[f].cursor = 0
            /\ file[f].pc = "closed" =>
                   /\ file[f].private_data = NULL
                   /\ ~file[f].data.alloc
                   /\ file[f].data.buffer = NULL
            /\ file[f].pc = "opened" =>
                   /\ file[f].private_data # NULL
                   /\ file[f].data.buffer # NULL
                   /\ heap[file[f].data.buffer].live)
    /\ [](\A a \in Addrs :
            heap[a].live =>
                \E f \in Files :
                    /\ file[f].data.buffer = a
                    /\ file[f].pc \in {"fill", "cnts", "tail", "out", "opened"}
                    /\ file[f].err = 0)
    /\ [][\A f \in Files :
            /\ (file[f].pc = "size" /\ file'[f].pc = "out") =>
                   (file'[f].err = -ENOMEM /\ heap' = heap)
            /\ (file[f].pc = "out" /\ file[f].err # 0 /\ file'[f] # file[f]) =>
                   /\ file'[f].pc = "closed"
                   /\ file'[f].ret = -ENOMEM
                   /\ file'[f].private_data = NULL
                   /\ heap' = heap]_vars

\* vzalloc has failed in a prf_serialize while another file is open
C8_Witness ==
    \E f \in Files :
        /\ file[f].pc = "out"
        /\ file[f].err = -ENOMEM
        /\ \E g \in Files \ {f} : file[g].pc = "opened"

\* C10: for a record whose per-site array is absent and a kind of it with sites,
\* the blob holds the kind's record header (kind tag, site count), then the site
\* count array, every byte of it zero, and no payload after it: the next kind or
\* record follows at once; the sizer counts the record header and the count array
\* for the kind and nothing else.
C10_AbsentArray ==
    \A f \in Files :
        Finished(f) =>
            /\ file[f].cursor = RecOff(Len(prf_data) + 1)
            /\ \A j \in 1..Len(prf_data) :
                   LET p == prf_data[j] IN
                   (p.values = NULL /\ PresentKinds(p) # {}) =>
                       /\ __prf_get_value_size(p).size =
                              ValueDataSize
                              + SumOver([k \in KindSet |-> prf_get_value_record_size(Sites(p, k))],
                                        PresentKinds(p))
                       /\ RefSize(p) = __prf_get_value_size(p).size
                       /\ HoldsAt(BlobOf(f), RecOff(j),
                                  LE(RefSize(p), 4) \o LE(Cardinality(PresentKinds(p)), 4))
                       /\ \A k \in PresentKinds(p) :
                              /\ HoldsAt(BlobOf(f), RecOff(j) + RefRecordOff(p, k),
                                         LE(k, 4) \o LE(Sites(p, k), 4))
                              /\ HoldsAt(BlobOf(f), RecOff(j) + RefCountsOff(p, k),
                                         Zeros(RefRecordOff(p, k + 1) - RefCountsOff(p, k)))
                              /\ RefRecordOff(p, k + 1) - RefCountsOff(p, k)
                                     = prf_get_value_record_site_count_size(Sites(p, k))

\* a finished blob of an image with such a record, followed by another record
C10_Witness ==
    /\ file["f1"].pc = "opened"
    /\ \E j \in 1..(Len(prf_data) - 1) :
           /\ prf_data[j].values = NULL
           /\ PresentKinds(prf_data[j]) = KindSet
           /\ PresentKinds(prf_data[j + 1]) # {}

(***************************************************************************)
(* C11: the header's data_size field and the records region               *)
(***************************************************************************)
\* the eight bytes of the header field at byte offset off of file f's blob
HeaderField(f, off) == SubSeq(BlobOf(f), off + 1, off + 8)

\* offsetof(struct llvm_prf_header, data_size): after magic and version
DataSizeOff == 16

FirstValued ==
    {j \in 1..Len(prf_data) :
        /\ PresentKinds(prf_data[j]) # {}
        /\ \A m \in 1..(j - 1) : PresentKinds(prf_data[m]) = {}}

\* C12: in every produced blob, for every size of the names region, the value
\* section starts at a byte offset that is a multiple of 8, and every byte
\* between the end of the copied names region and that offset is zero.
C12_ValueSectionAligned ==
    \A f \in Files :
        Finished(f) =>
            /\ ValuesOff % 8 = 0
            /\ HoldsAt(BlobOf(f), NamesOff, prf_names)
            /\ ValuesOff - (NamesOff + Len(prf_names)) \in 0..7
            /\ \A k \in (NamesOff + Len(prf_names) + 1)..ValuesOff : BlobOf(f)[k] = 0
            /\ \A j \in FirstValued :
                   /\ RecOff(j) = ValuesOff
                   /\ HoldsAt(BlobOf(f), ValuesOff,
                              LE(__prf_get_value_size(prf_data[j]).size, 4)
                                  \o LE(Cardinality(PresentKinds(prf_data[j])), 4))
            /\ file[f].cursor = RecOff(Len(prf_data) + 1)

\* a finished blob with a names region of 3 bytes, 5 bytes of padding and a
\* flattened value record after them
C12_Witness ==
    \E f \in Files :
        /\ Finished(f)
        /\ Len(prf_names) = 3
        /\ ValuesOff = NamesOff + 8
        /\ FirstValued # {}

(***************************************************************************)
(* C13: an independent reader of the value section.  The reader knows the  *)
(* blob only: it takes the region sizes from the header, the site counts   *)
(* of each record from the copied records region, and walks the value      *)
(* section by the documented layout.                                       *)
(***************************************************************************)
\* the byte at offset off of buf (-1 past the end)
At(buf, off) == IF off + 1 \in 1..Len(buf) THEN buf[off + 1] ELSE -1

\* the unsigned little-endian integer of n bytes at offset off (-1 when it is
\* past the end of buf or does not fit in three bytes)
U(buf, off, n) ==
    IF \/ \E k \in 0..(n - 1) : At(buf, off + k) < 0
       \/ \E k \in 3..(n - 1) : At(buf, off + k) # 0
    THEN -1
    ELSE SumOver([k \in 0..Min(n - 1, 2) |->
                     At(buf, off + k) * (IF k = 0 THEN 1 ELSE IF k = 1 THEN 256 ELSE 65536)],
                 0..Min(n - 1, 2))

\* one kind's record at offset pos: kind tag, site count, count array (padded
\* to a multiple of 8), then counts[j] payloads of 16 bytes for each site j
ReadKind(buf, pos) ==
    LET kind   == U(buf, pos, 4)
        sites  == U(buf, pos + 4, 4)
        sane   == sites \in 0..(Len(buf) - pos)
        S      == IF sane THEN 0..(sites - 1) ELSE {}
        counts == [j \in S |-> At(buf, pos + 8 + j)]
        base   == pos + 8 + (IF sane THEN roundup(sites, 8) ELSE 0)
        start  == [j \in S \cup {Cardinality(S)} |->
                      base + NodeDataSize * SumOver(counts, {m \in S : m < j})]
        nodes  == [j \in S |->
                      [i \in 1..counts[j] |->
                          [value |-> U(buf, start[j] + NodeDataSize * (i - 1), 8),
                           count |-> U(buf, start[j] + NodeDataSize * (i - 1) + 8, 8)]]]
    IN [kind |-> kind, sites |-> sites, counts |-> counts, nodes |-> nodes,
        end |-> start[Cardinality(S)]]

RECURSIVE ReadKinds(_, _, _)
\* n kind records one after the other from offset pos
ReadKinds(buf, pos, n) ==
    IF n <= 0 \/ pos >= Len(buf) THEN [kinds |-> <<>>, end |-> pos]
    ELSE LET k    == ReadKind(buf, pos)
             rest == ReadKinds(buf, k.end, n - 1)
         IN [kinds |-> <<[kind |-> k.kind, sites |-> k.sites,
                          counts |-> k.counts, nodes |-> k.nodes]>> \o rest.kinds,
             end |-> rest.end]

\* the site counts of record j, from the copy of the records region
ReadSites(buf, j) ==
    [k \in KindSet |-> U(buf, HeaderSize + DataSize * (j - 1) + 44 + 2 * k, 2)]

RECURSIVE ReadRecords(_, _, _, _)
\* the flattened value records of the records j .. n, the first at offset off;
\* a record without sites has none, the next starts total_size bytes on
ReadRecords(buf, j, n, off) ==
    IF j > n THEN [recs |-> <<>>, end |-> off]
    ELSE IF \A k \in KindSet : ReadSites(buf, j)[k] = 0
         THEN ReadRecords(buf, j + 1, n, off)
         ELSE LET total == U(buf, off, 4)
                  ks    == ReadKinds(buf, off + ValueDataSize, U(buf, off + 4, 4))
                  rest  == ReadRecords(buf, j + 1, n, off + total)
              IN [recs |-> <<[record |-> j, total_size |-> total, walked |-> ks.end - off,
                              kinds |-> ks.kinds]>> \o rest.recs,
                  end |-> rest.end]

\* the whole value section of a blob
ReadValueSection(buf) ==
    LET nrec  == U(buf, 16, 8)
        ncnt  == U(buf, 32, 8)
        nname == U(buf, 48, 8)
        off   == HeaderSize + DataSize * nrec + CounterSize * ncnt
                     + nname + ((8 - (nname % 8)) % 8)
    IN ReadRecords(buf, 1, nrec, off)

\* what the reader is to find for one kind of the live record p
LiveKind(p, k) ==
    [kind   |-> k,
     sites  |-> Sites(p, k),
     counts |-> [j \in 0..(Sites(p, k) - 1) |->
                    IF p.values = NULL THEN 0 ELSE ListOf(p, k, j).len],
     nodes  |-> [j \in 0..(Sites(p, k) - 1) |->
                    IF p.values = NULL THEN <<>>
                    ELSE [i \in 1..ListOf(p, k, j).len |->
                             [value |-> i, count |-> ListOf(p, k, j).tag]]]]

\* the present kinds of p in enumeration order
LiveKinds(p) ==
    [i \in 1..Cardinality(PresentKinds(p)) |->
        LiveKind(p, CHOOSE k \in PresentKinds(p) :
                        Cardinality({m \in PresentKinds(p) : m < k}) = i - 1)]

RECURSIVE LiveRecords(_, _)
\* the records j .. Len(data) with a nonzero site count, in record order
LiveRecords(data, j) ==
    IF j > Len(data) THEN <<>>
    ELSE IF PresentKinds(data[j]) = {} THEN LiveRecords(data, j + 1)
         ELSE <<[record |-> j, kinds |-> LiveKinds(data[j])]>> \o LiveRecords(data, j + 1)

\* every list of the live records has at most 255 nodes
AllWithinCap ==
    \A j \in 1..Len(prf_data) :
        \A i \in 1..Len(prf_data[j].lists) : prf_data[j].lists[i].len <= U8_MAX

\* C13: when every list has at most 255 nodes, an independent reader that walks
\* the value section by the documented layout finds, for each record with a
\* nonzero site count and in record order, each present kind in enumeration
\* order with its kind tag, its site count, a count array of the sites' list
\* lengths in ascending site order, and each site's payloads equal to the live
\* list's nodes in list order, site j of a kind being the per-site array entry
\* (sites of the preceding kinds) + j; the walk ends at the end of the blob.
C13_ReaderRecoversLists ==
    \A f \in Files :
        (Finished(f) /\ AllWithinCap) =>
            LET rd == ReadValueSection(BlobOf(f)) IN
            /\ [i \in 1..Len(rd.recs) |->
                   [record |-> rd.recs[i].record, kinds |-> rd.recs[i].kinds]]
                   = LiveRecords(prf_data, 1)
            /\ \A i \in 1..Len(rd.recs) : rd.recs[i].total_size = rd.recs[i].walked
            /\ rd.end = Len(BlobOf(f))
            /\ rd.end = file[f].data.size

\* a finished blob whose first record has no kinds and whose second has both
\* kinds, the second kind's sites after the first's in the per-site array, one
\* of its lists of exactly 255 nodes
C13_Witness ==
    \E f \in Files :
        /\ Finished(f)
        /\ AllWithinCap
        /\ Len(prf_data) = 2
        /\ PresentKinds(prf_data[1]) = {}
        /\ PresentKinds(prf_data[2]) = KindSet
        /\ prf_data[2].values # NULL
        /\ ListOf(prf_data[2], 1, 0).len = U8_MAX
        /\ ListOf(prf_data[2], 1, 1).len = 1

(***************************************************************************)
(* C14: the length of the allocated buffer                                 *)
(***************************************************************************)
\* f's prf_serialize has allocated its buffer
Allocated(f) ==
    /\ file[f].pc \in {"fill", "cnts", "tail", "out", "opened"}
    /\ file[f].data.buffer # NULL

\* C14: the length of the buffer prf_serialize allocates, which is the size the
\* blob reports to its readers, is header size + records region size + counters
\* region size + names region size + padding of the names region size to 8 +
\* the sum of the sizer's result over all metadata records, exactly.
C14_BufferLength ==
    \A f \in Files :
        Allocated(f) =>
            /\ file[f].data.size =
                   HeaderSize
                   + DataSize * Len(prf_data)
                   + CounterSize * Len(prf_cnts)
                   + Len(prf_names)
                   + prf_get_padding(Len(prf_names))
                   + SumOver([j \in 1..Len(prf_data) |-> __prf_get_value_size(prf_data[j]).size],
                             1..Len(prf_data))
            /\ Len(BlobOf(f)) = file[f].data.size

\* an allocated buffer for a names region that needs padding and two records
\* with value data, one of them with a list over the cap
C14_Witness ==
    \E f \in Files :
        /\ Allocated(f)
        /\ prf_get_padding(Len(prf_names)) = 3
        /\ Len(prf_data) = 2
        /\ PresentKinds(prf_data[1]) # {}
        /\ ~AllWithinCap

(***************************************************************************)
(* C15: every open has its own blob, a copy that nothing changes later     *)
(***************************************************************************)
\* C15: a successful open produces its own freshly allocated blob, a full copy
\* of the regions: the buffer comes from an allocation that was not live, no
\* two files hold the same buffer, and once prf_serialize has written the blob
\* no step of a reset, of another open or of a read changes its bytes.
C15_OwnBlobUnchanged ==
    /\ [](\A f \in Files : \A g \in Files \ {f} :
            (file[f].data.buffer # NULL /\ file[g].data.buffer # NULL) =>
                file[f].data.buffer # file[g].data.buffer)
    /\ [](\A f \in Files :
            Finished(f) =>
                /\ heap[file[f].data.buffer].live
                /\ Len(BlobOf(f)) = file[f].data.size)
    /\ [][\A f \in Files :
            /\ (file[f].pc = "size" /\ file'[f].pc = "fill") =>
                   /\ ~heap[file'[f].data.buffer].live
                   /\ heap'[file'[f].data.buffer].live
                   /\ \A a \in Addrs \ {file'[f].data.buffer} : heap'[a] = heap[a]
            /\ (Finished(f) /\ Finished(f)') =>
                   /\ file'[f].data = file[f].data
                   /\ BlobOf(f)' = BlobOf(f)]_vars

\* f1's blob holds the counters as they were, the reset has zeroed the live
\* counters since, and f2 has been opened after the reset
C15_Witness ==
    /\ file["f1"].pc = "opened"
    /\ file["f2"].pc = "opened"
    /\ BlobCnts("f1") = CntsBytes(InitCnts)
    /\ prf_cnts = [i \in 1..NumCnts |-> 0]
    /\ [k \in 1..prf_cnts_size(prf_cnts) |-> heap[file["f2"].data.buffer].bytes[CntsOff + k]]
           = Zeros(prf_cnts_size(prf_cnts))

(***************************************************************************)
(* C16: the life of a file's blob: serialized at open, read, freed at       *)
(* release                                                                 *)
(***************************************************************************)
\* C16: for every opened file the blob is written once, during the open; a
\* read between a successful open and the release returns the bytes of that
\* blob at the file position, as many as are asked for or left; the release
\* frees the buffer, which was live until then; no file is opened without a
\* live blob of its own, and a closed file, after a release or a failed open,
\* holds no allocation.
C16_BlobLifecycle ==
    /\ [](\A f \in Files :
            /\ file[f].pc = "opened" =>
                   /\ file[f].data.alloc
                   /\ file[f].data.buffer # NULL
                   /\ heap[file[f].data.buffer].live
                   /\ Len(BlobOf(f)) = file[f].data.size
            /\ file[f].pc = "closed" => (~file[f].data.alloc /\ file[f].data.buffer = NULL))
    /\ [](\A a \in Addrs :
            heap[a].live =>
                Cardinality({f \in Files : file[f].data.buffer = a /\ file[f].pc # "closed"}) = 1)
    /\ [][\A f \in Files :
            \* the blob is written between vzalloc and the end of prf_serialize only
            /\ (file[f].data.buffer # NULL /\ file[f].pc \notin {"fill", "cnts", "tail"}
                    /\ file'[f].pc # "closed") =>
                   heap'[file[f].data.buffer] = heap[file[f].data.buffer]
            /\ (file'[f].pc = "opened" /\ file[f].pc # "opened") =>
                   (file[f].pc = "out" /\ file[f].err = 0 /\ file'[f].data = file[f].data)
            \* prf_read
            /\ (file[f].pc = "opened" /\ file'[f].pc = "opened" /\ file'[f] # file[f]) =>
                   LET left == file[f].data.size - file[f].pos
                       n    == IF left <= 0 THEN 0 ELSE Min(ReadCount, left)
                   IN /\ file'[f].ret = n
                      /\ file'[f].pos = file[f].pos + n
                      /\ file'[f].rd = SubSeq(BlobOf(f), file[f].pos + 1, file[f].pos + n)
                      /\ file'[f].data = file[f].data
                      /\ heap' = heap
            \* prf_release
            /\ (file[f].pc = "opened" /\ file'[f].pc = "closed") =>
                   /\ heap[file[f].data.buffer].live
                   /\ ~heap'[file[f].data.buffer].live
                   /\ \A a \in Addrs \ {file[f].data.buffer} : heap'[a] = heap[a]
            \* a failed open
            /\ (file[f].pc \notin {"opened", "closed"} /\ file'[f].pc = "closed") =>
                   /\ heap' = heap
                   /\ file[f].data.buffer = NULL]_vars

\* a second read has been served from the middle of f1's blob while f2's open
\* has failed
C16_Witness ==
    /\ file["f1"].pc = "opened"
    /\ file["f1"].pos = 2 * ReadCount
    /\ file["f1"].rd = SubSeq(BlobOf("f1"), ReadCount + 1, 2 * ReadCount)
    /\ file["f2"].pc = "closed"
    /\ file["f2"].ret = -ENOMEM

(***************************************************************************)
(* C17: the reset file                                                      *)
(***************************************************************************)
\* C17: a write of any length to the reset file succeeds and returns the full
\* length; when it returns every counter of the counters region is zero; no
\* step of it changes the records region, the names region or the value
\* sample lists (both are parts of prf_data), nor any file or buffer.  A read
\* of the reset file returns 0 and changes nothing.
C17_ResetWriteRead ==
    /\ [](reset.ret >= 0)
    /\ [][/\ (reset.pc = "idle" /\ reset'.pc = "memset") =>
                 /\ reset'.len \in 0..MaxResetLen
                 /\ prf_cnts' = prf_cnts
          /\ (reset.pc = "memset" /\ reset'.pc = "idle") =>
                 /\ reset'.ret = reset.len
                 /\ \A i \in 1..Len(prf_cnts) : prf_cnts'[i] = 0
          /\ (reset.pc = "idle" /\ reset'.pc = "idle" /\ reset' # reset) =>
                 /\ reset'.ret = 0
                 /\ prf_cnts' = prf_cnts
          /\ reset' # reset =>
                 /\ prf_data' = prf_data
                 /\ prf_names' = prf_names
                 /\ file' = file
                 /\ heap' = heap
                 /\ pgo_lock' = pgo_lock
          /\ prf_cnts' # prf_cnts => reset.pc = "memset"]_vars

\* a write of one byte has returned 1 with all counters zero, the image has
\* records with value data, and a file opened before it still is open
C17_Witness ==
    /\ reset.pc = "idle"
    /\ reset.len = 1
    /\ reset.ret = 1
    /\ prf_cnts = [i \in 1..NumCnts |-> 0]
    /\ \E j \in 1..Len(prf_data) : PresentKinds(prf_data[j]) # {}
    /\ file["f1"].pc = "opened"
    /\ BlobCnts("f1") = CntsBytes(InitCnts)

(***************************************************************************)
(* C18, C19: the lock around prf_serialize                                 *)
(***************************************************************************)
\* C18: while prf_serialize holds the lock it performs no step that can sleep:
\* no task is at the call of vzalloc, which can sleep, between taking and
\* releasing the lock.
C18_NoAllocUnderLock ==
    \A f \in Files : file[f].pc = "size" => pgo_lock # f

\* C19: every prf_serialize takes the lock once, when it is free and never
\* while it holds it, holds it from there to its out label and releases it on
\* its return, with err = 0 and with err = -ENOMEM alike; so a held lock is
\* free again later (it is free infinitely often), a later prf_serialize does
\* not wait for the lock forever, and a reset, which takes no lock, is not in
\* its memset forever.
C19_LockReleased ==
    /\ [](\A f \in Files :
            pgo_lock = f <=> file[f].pc \in {"size", "fill", "cnts", "tail", "out"})
    /\ [][\A f \in Files :
            /\ (pgo_lock' = f /\ pgo_lock # f) =>
                   (pgo_lock = NoTask /\ file[f].pc = "lock" /\ file'[f].pc = "size")
            /\ (pgo_lock = f /\ pgo_lock' # f) =>
                   /\ pgo_lock' = NoTask
                   /\ file[f].pc = "out"
                   /\ IF file[f].err = 0
                      THEN file'[f].pc = "opened" /\ file'[f].ret = 0
                      ELSE file'[f].pc = "closed" /\ file'[f].ret = -ENOMEM]_vars
    /\ []<>(pgo_lock = NoTask)
    /\ \A f \in Files : []<>(file[f].pc # "lock")
    /\ []<>(reset.pc = "idle")

\* f1 is at its out label after a failed vzalloc, holding the lock, while f2
\* waits for the lock and a reset is in progress
C19_Witness ==
    /\ pgo_lock = "f1"
    /\ file["f1"].pc = "out"
    /\ file["f1"].err = -ENOMEM
    /\ file["f2"].pc = "lock"
    /\ reset.pc = "memset"

====
